---- MODULE Spec2Model ----
(***************************************************************************)
(* Model of the LibreOffice spreadsheet environment                        *)
(* (src/src/envs/libreoffice_env/server/libreoffice_environment.py):       *)
(* the episode state machine reset / step / close, the command dispatcher, *)
(* the command handlers and the part of the document engine they drive.    *)
(*                                                                         *)
(* Conventions                                                             *)
(*   - an Optional value is a sequence: <<>> is None, <<x>> is x;          *)
(*   - a Python string built by an f-string is the sequence of its pieces; *)
(*   - object references are small integers, 0 is None;                    *)
(*   - every engine capability call may raise: the set F of an operation   *)
(*     names the capabilities that raise during that operation.            *)
(***************************************************************************)
EXTENDS Integers, Sequences, FiniteSets, TLC

\* ------------------------------------------------------------------ bounds
MaxSteps == 2
MaxResets == 2
MaxSheets == 2

\* -------------------------------------------------------- program constants
ConnectAttempts == 10

\* ----------------------------------------------------------------- values
None == <<>>
Some(x) == <<x>>
IsNone(o) == Len(o) = 0
Val(o) == o[1]

DocIds == 1..(MaxResets + 3)
DirIds == 1..(MaxResets + 2)
SheetIds == 1..(MaxSheets + 2)
Addrs == {"A1", "B1", "A2", "B2"}
BasePath == "/data/base.xlsx"
GoalPath == "/data/goal.xlsx"
WorkPath == "/tmp/test.ods"
MissingPath == "/tmp/missing.ods"

\* Python values carried by the parameters "value" and "values"
PyNum(n) == [t |-> "num", n |-> n, s |-> ""]
PyStr(s) == [t |-> "str", n |-> 0, s |-> s]
PyNone == [t |-> "none", n |-> 0, s |-> ""]
\* True and False; float(True) is 1.0
PyBool(b) == [t |-> "bool", n |-> IF b THEN 1 ELSE 0, s |-> ""]

\* str(x) of a Python value
PyToStr(v) ==
  CASE v.t = "str" -> v.s
    [] v.t = "none" -> "None"
    [] v.t = "bool" -> IF v.n = 1 THEN "True" ELSE "False"
    [] v.t = "num" /\ v.n = 0 -> "0"
    [] v.t = "num" /\ v.n = 1 -> "1"
    [] v.t = "num" /\ v.n = 5 -> "5"
    [] v.t = "num" /\ v.n = 7 -> "7"
    [] v.t = "num" /\ v.n = 10 -> "10"
    [] OTHER -> "25"

\* content of a cell held by the engine
EmptyCell == [t |-> "empty", n |-> 0, s |-> ""]
NumCell(n) == [t |-> "num", n |-> n, s |-> ""]
TextCell(s) == [t |-> "str", n |-> 0, s |-> s]
FormulaCell(f) == [t |-> "formula", n |-> 0, s |-> f]

NoSheet == [doc |-> 0, sid |-> 0]
BlankCells == [i \in SheetIds |-> [a \in Addrs |-> EmptyCell]]
ClosedDoc == [open |-> FALSE, sheets |-> <<>>, cells |-> BlankCells]
SheetName(n) ==
  CASE n = 1 -> "Sheet1"
    [] n = 2 -> "Sheet2"
    [] n = 3 -> "Sheet3"
    [] n = 4 -> "Sheet4"
    [] OTHER -> "Sheet5"
BlankContent == [sheets |-> <<[sid |-> 1, name |-> SheetName(1)]>>, cells |-> BlankCells]
BaseContent ==
  [sheets |-> <<[sid |-> 1, name |-> "Data"]>>,
   cells |-> [BlankCells EXCEPT ![1]["A1"] = NumCell(5)]]

\* exception messages, str(e)
EngineError(point) == <<"UNO error in ", point>>
AttributeError(attr) == <<"'NoneType' object has no attribute '", attr, "'">>
ConnectError == <<"Could not connect to LibreOffice UNO socket.">>
\* insertNewByName refuses a name that is empty or already in use
NameClash(name) == <<"UNO error in ", "insertNewByName", ": name refused: ", name>>

\* --------------------------------------------------------------- state
VARIABLES
  self,          \* the fields of the LibreOfficeEnvironment instance
  docs,          \* engine: the documents, by reference
  running,       \* engine: the office process accepts calls
  dirs,          \* file system: the temporary directories that exist
  files,         \* file system: the spreadsheet files that exist
  uno_installed, \* host: the UNO bridge modules can be imported
  uuids,         \* identifiers handed out by uuid4 so far
  lastOp,        \* the call that returned last
  obs,           \* the observation it returned
  raised,        \* None, or the message of the exception it propagated
  trace,         \* the capability calls it made, in order
  thrown,        \* the exceptions raised while it ran, in order
  action,        \* the action of the last step call
  handler,       \* the handler the last step call reached, or "none"
  stepCalls,     \* step calls made since the last reset (or construction)
  life           \* the caller's view of the life cycle

vars == <<self, docs, running, dirs, files, uno_installed, uuids, lastOp, obs,
          raised, trace, thrown, action, handler, stepCalls, life>>

\* the world an operation works on, threaded through the handlers
World == [self |-> self, docs |-> docs, running |-> running, dirs |-> dirs,
          files |-> files, trace |-> <<>>, thrown |-> <<>>]

Call(w, name) == [w EXCEPT !.trace = Append(@, name)]
\* an exception raised during the operation, and the function whose except
\* clause catches it ("" when it leaves the operation)
Thrown(w, within, exc) ==
  [w EXCEPT !.thrown = Append(@, [within |-> within, exc |-> exc])]

\* LibreOfficeObservation(...): the dataclass defaults
Observation(result, success) ==
  [result |-> result, success |-> success, data |-> None,
   current_sheet |-> None, sheet_names |-> None, error_message |-> None,
   file_path |-> None, done |-> FALSE, reward |-> None, metadata |-> None]

Failure(result, message) ==
  [Observation(result, FALSE) EXCEPT !.error_message = Some(message)]

\* an except clause that reports a fixed text instead of str(e)
CaughtWithoutMessage(prefix, exc) == Failure(<<prefix>> \o exc, <<"operation failed">>)
\* "except Exception as e" of a handler: the result prefix and str(e)
Caught(prefix, exc) == Failure(<<prefix>> \o exc, exc)
Trap(w, prefix, exc) == [w |-> Thrown(w, "handler", exc), obs |-> Caught(prefix, exc)]

\* params.get(key) is truthy
Has(p, k) == k \in DOMAIN p
Truthy(p, k) == Has(p, k) /\ (IF k = "values" THEN p[k] # <<>> ELSE p[k] # "")
\* params.get(key) as an Optional
Get(p, k) == IF Has(p, k) THEN Some(p[k]) ELSE None

\* ------------------------------------------------------- engine helpers
DocOpen(w, d) == d # 0 /\ w.running /\ w.docs[d].open
SheetNames(w, d) == [i \in 1..Len(w.docs[d].sheets) |-> w.docs[d].sheets[i].name]
SheetIdx(w, d, name) ==
  IF \E i \in 1..Len(w.docs[d].sheets) : w.docs[d].sheets[i].name = name
  THEN CHOOSE i \in 1..Len(w.docs[d].sheets) : w.docs[d].sheets[i].name = name
  ELSE 0
SheetLive(w, sh) ==
  /\ sh.doc # 0
  /\ DocOpen(w, sh.doc)
  /\ \E i \in 1..Len(w.docs[sh.doc].sheets) : w.docs[sh.doc].sheets[i].sid = sh.sid
NameOf(w, sh) ==
  LET S == w.docs[sh.doc].sheets
  IN S[CHOOSE i \in 1..Len(S) : S[i].sid = sh.sid].name
SheetAt(w, d, i) == [doc |-> d, sid |-> w.docs[d].sheets[i].sid]

\* a reference the environment does not hold and the engine does not use
FreeDocs(w) ==
  {d \in DocIds : ~w.docs[d].open /\ d # w.self.document /\ d # w.self.current_sheet.doc}
NewDoc(w) == CHOOSE d \in FreeDocs(w) : \A e \in FreeDocs(w) : d <= e
FreeDirs(w) == {t \in DirIds : t \notin w.dirs /\ t # w.self.temp_dir}
NewDir(w) == CHOOSE t \in FreeDirs(w) : \A e \in FreeDirs(w) : t <= e

\* a close that returns and leaves the document open in the engine
CloseDocKept(w, d) == w
\* XCloseable.close: the engine forgets the document
CloseDoc(w, d) == [w EXCEPT !.docs[d] = ClosedDoc]
\* XDesktop.terminate: the office process ends and every document with it
Terminate(w) == [w EXCEPT !.running = FALSE, !.docs = [d \in DocIds |-> ClosedDoc]]
\* loadComponentFromURL: a new document with the given content
LoadDoc(w, d, content) ==
  [w EXCEPT !.docs[d] = [open |-> TRUE, sheets |-> content.sheets, cells |-> content.cells]]

\* ------------------------------------------------ file and lifecycle helpers
OpenFileMissing ==
  Failure(<<"No file path provided">>, <<"file_path parameter is required">>)

\* _open_file, after the file_path check: the try block
OpenFileBody(w, path, F) ==
  LET d == w.self.document
      wa == IF d # 0 THEN Call(w, "close") ELSE w
      closeRaises == d # 0 /\ ("close" \in F \/ ~DocOpen(w, d))
      wb == IF d # 0 THEN CloseDoc(wa, d) ELSE wa
      wc == Call(wb, "createInstance")
      wd == Call(wc, "loadComponentFromURL")
      nd == NewDoc(wd)
      we == [LoadDoc(wd, nd, w.files[path]) EXCEPT !.self.document = nd]
      wf == Call(we, "getSheets")
      wg == Call(wf, "getByIndex")
      wh == [wg EXCEPT !.self.current_sheet = SheetAt(wg, nd, 1),
                       !.self.file_path = Some(path)]
      wi == Call(wh, "getCount")
      wj == Call(Call(wi, "getByIndex"), "getName")
      err(x, exc) == Trap(x, "Error opening file: ", exc)
  IN IF closeRaises THEN err(wa, EngineError("close"))
     ELSE IF w.self.libreoffice_context = 0 THEN err(wb, AttributeError("getServiceManager"))
     ELSE IF "createInstance" \in F \/ ~w.running THEN err(wc, EngineError("createInstance"))
     ELSE IF "loadComponentFromURL" \in F \/ path \notin DOMAIN w.files
       THEN err(wd, EngineError("loadComponentFromURL"))
     ELSE IF "load_returns_none" \in F
       THEN [w |-> [wd EXCEPT !.self.document = 0],
             obs |-> Failure(<<"Failed to open file">>, <<"Could not open the specified file">>)]
     ELSE IF "getSheets" \in F THEN err(wf, EngineError("getSheets"))
     ELSE IF "getByIndex" \in F THEN err(wg, EngineError("getByIndex"))
     ELSE IF "getCount" \in F THEN err(wi, EngineError("getCount"))
     ELSE IF "getName" \in F THEN err(wj, EngineError("getName"))
     ELSE [w |-> wj,
           obs |-> [Observation(<<"File opened successfully: ", path>>, TRUE) EXCEPT
                      !.current_sheet = Some(NameOf(wj, wj.self.current_sheet)),
                      !.sheet_names = Some(SheetNames(wj, nd)),
                      !.file_path = Some(path)]]

open_file(w, params, F) ==
  IF ~Truthy(params, "file_path") THEN [w |-> w, obs |-> OpenFileMissing]
  ELSE OpenFileBody(w, params.file_path, F)

\* _save_file
save_file(w, params, F) ==
  IF ~Truthy(params, "file_path") THEN [w |-> w, obs |-> OpenFileMissing]
  ELSE
    LET path == params.file_path
        d == w.self.document
        wa == Call(w, "storeAsURL")
        content == [sheets |-> w.docs[d].sheets, cells |-> w.docs[d].cells]
        wb == [wa EXCEPT !.files = (path :> content) @@ @, !.self.file_path = Some(path)]
        err(x, exc) == Trap(x, "Error saving file: ", exc)
    IN IF d = 0 THEN err(w, AttributeError("storeAsURL"))
       ELSE IF "storeAsURL" \in F \/ ~DocOpen(w, d) THEN err(wa, EngineError("storeAsURL"))
       ELSE [w |-> wb,
             obs |-> [Observation(<<"File saved successfully: ", path>>, TRUE) EXCEPT
                        !.file_path = Some(path)]]

\* _cleanup_libreoffice: one try block around both releases
cleanup_libreoffice(w, F) ==
  LET d == w.self.document
      t == w.self.temp_dir
      closeRaises == d # 0 /\ ("close" \in F \/ ~DocOpen(w, d))
      wa == IF d # 0 THEN Call(w, "close") ELSE w
      wb == IF d # 0 THEN [CloseDoc(wa, d) EXCEPT !.self.document = 0] ELSE wa
      wc == Call(wb, "rmtree")
  IN IF closeRaises THEN Thrown(wa, "_cleanup_libreoffice", EngineError("close"))
     ELSE IF t # 0 /\ t \in w.dirs
       THEN IF "rmtree" \in F THEN Thrown(wc, "_cleanup_libreoffice", <<"rmtree failed">>)
            ELSE [wc EXCEPT !.dirs = @ \ {t}, !.self.temp_dir = 0]
     ELSE wb

\* what _open_file meets when reset opens the base document
BaseFaults(F) ==
  (IF "base_load" \in F THEN {"loadComponentFromURL"} ELSE {})
    \cup (IF "base_none" \in F THEN {"load_returns_none"} ELSE {})

\* a resolver loop that tries once more than the attempt count
ResolveCallsOnePast(fails) ==
  LET n == IF fails < ConnectAttempts THEN fails + 1 ELSE ConnectAttempts + 1
      k == IF fails < ConnectAttempts THEN fails ELSE ConnectAttempts
  IN [i \in 1..(n + k) |-> IF i % 2 = 1 /\ i <= 2 * k THEN "resolve"
                           ELSE IF i <= 2 * k THEN "sleep" ELSE "resolve"]
\* the resolver loop of _initialize_libreoffice: `fails` attempts are refused
\* before one is accepted; the calls it makes
ResolveCalls(fails) ==
  LET n == IF fails < ConnectAttempts THEN fails + 1 ELSE ConnectAttempts
      k == IF fails < ConnectAttempts THEN fails ELSE ConnectAttempts
  IN [i \in 1..(n + k) |-> IF i % 2 = 1 /\ i <= 2 * k THEN "resolve"
                           ELSE IF i <= 2 * k THEN "sleep" ELSE "resolve"]

\* a new document that starts as a copy of the document still held open
NewCopyOfHeld(w, nd) ==
  [LoadDoc(w, nd, IF DocOpen(w, w.self.document)
                  THEN [sheets |-> w.docs[w.self.document].sheets,
                        cells |-> w.docs[w.self.document].cells]
                  ELSE BlankContent)
     EXCEPT !.self.document = nd]
\* self._document = desktop.loadComponentFromURL("private:factory/scalc", ...)
NewBlank(w, nd) == [LoadDoc(w, nd, BlankContent) EXCEPT !.self.document = nd]

\* _initialize_libreoffice, the try block; ret is its return value
initialize_libreoffice(w, F, fails) ==
  LET wa == Call(w, "getComponentContext")
      wb == Call(wa, "createInstance")
      wc == [wb EXCEPT !.trace = @ \o ResolveCalls(fails)]
      wd == [wc EXCEPT !.self.libreoffice_context = 1, !.running = TRUE,
                       !.docs = IF w.running THEN @ ELSE [d \in DocIds |-> ClosedDoc]]
      we == Call(wd, "createInstance")
      wf == Call(we, "loadComponentFromURL")
      nd == NewDoc(wf)
      wg == NewBlank(wf, nd)
      wh == Call(wg, "getSheets")
      wi == Call(wh, "getByIndex")
      wj == [wi EXCEPT !.self.current_sheet = SheetAt(wi, nd, 1)]
      wk == Call(wj, "mkdtemp")
      nt == NewDir(wk)
      wl == [wk EXCEPT !.dirs = @ \cup {nt}, !.self.temp_dir = nt, !.self.initialized = TRUE]
      base == w.self.base_excel
      wm == IF ~IsNone(base) /\ Val(base) # "" /\ Val(base) \in DOMAIN wl.files
            THEN open_file(wl, [file_path |-> Val(base)], BaseFaults(F)).w
            ELSE wl
      no(x, exc) == [w |-> Thrown(x, "_initialize_libreoffice", exc), ret |-> FALSE]
  IN IF "getComponentContext" \in F THEN no(wa, EngineError("getComponentContext"))
     ELSE IF "createResolver" \in F THEN no(wb, EngineError("createResolver"))
     ELSE IF "resolve" \in F THEN no(Call(wb, "resolve"), EngineError("resolve"))
     ELSE IF fails >= ConnectAttempts THEN no(wc, ConnectError)
     ELSE IF "createInstance" \in F THEN no(we, EngineError("createInstance"))
     ELSE IF "loadComponentFromURL" \in F THEN no(wf, EngineError("loadComponentFromURL"))
     ELSE IF "load_returns_none" \in F
       THEN [w |-> [wf EXCEPT !.self.document = 0], ret |-> FALSE]
     ELSE IF "getSheets" \in F THEN no(wh, EngineError("getSheets"))
     ELSE IF "getByIndex" \in F THEN no(wi, EngineError("getByIndex"))
     ELSE IF "mkdtemp" \in F THEN no(wk, <<"mkdtemp failed">>)
     ELSE [w |-> wm, ret |-> TRUE]

\* ------------------------------------------------------------ cell engine
\* the cell a (column, row) position names, 0-based as in getCellByPosition
\* a getCellByPosition that takes the row for the column
AddrAtTransposed(col, row) ==
  CASE col = 0 /\ row = 0 -> "A1"
    [] col = 0 /\ row = 1 -> "B1"
    [] col = 1 /\ row = 0 -> "A2"
    [] OTHER -> "B2"
AddrAt(col, row) ==
  CASE col = 0 /\ row = 0 -> "A1"
    [] col = 1 /\ row = 0 -> "B1"
    [] col = 0 /\ row = 1 -> "A2"
    [] OTHER -> "B2"
\* RangeAddress.StartColumn / StartRow of a range or cell name
StartCol(range) == IF range \in {"B1", "B1:B1"} THEN 1 ELSE 0
StartRow(range) == IF range = "A2" THEN 1 ELSE 0
RangeCols(range) == IF range = "A1:B1" THEN 2 ELSE 1
ValidRange(range) == range \in {"A1", "B1", "A2", "A1:A1", "B1:B1", "A1:B1"}
Formulas == {"=A1+5"}

\* XCell.getValue, XText.getString, XCell.getFormula of a cell content
RECURSIVE CellValue(_, _)
CellValue(cs, a) ==
  LET c == cs[a]
  IN CASE c.t = "num" -> c.n
       [] c.t = "formula" /\ a # "A1" -> CellValue(cs, "A1") + 5
       [] OTHER -> 0
CellString(cs, a) ==
  LET c == cs[a]
  IN CASE c.t = "str" -> c.s
       [] c.t = "empty" -> ""
       [] c.t = "formula" /\ a = "A1" -> "Err:522"
       [] OTHER -> PyToStr(PyNum(CellValue(cs, a)))
\* a getFormula that answers with the displayed result
CellFormulaEvaluated(cs, a) == CellString(cs, a)
CellFormula(cs, a) ==
  LET c == cs[a]
  IN CASE c.t \in {"str", "formula"} -> c.s
       [] c.t = "empty" -> ""
       [] OTHER -> PyToStr(PyNum(c.n))
\* a data array that hands out every entry as text
CellDataAsText(cs, a) == PyStr(CellString(cs, a))
\* one entry of XCellRangeData.getDataArray
CellData(cs, a) ==
  LET c == cs[a]
  IN CASE c.t = "str" -> PyStr(c.s)
       [] c.t = "empty" -> PyStr("")
       [] c.t = "formula" /\ a = "A1" -> PyStr("Err:522")
       [] OTHER -> PyNum(CellValue(cs, a))
\* XCell.setFormula: text that is not a formula is entered as a constant
EnterFormula(f) ==
  CASE f \in Formulas -> FormulaCell(f)
    [] f = "5" -> NumCell(5)
    [] OTHER -> TextCell(f)
\* isinstance(value, (int, float)) ? setValue(float(value)) : setString(str(value))
\* isinstance(value, (int, float)): bool is a subclass of int
IsNumber(v) == v.t \in {"num", "bool"}
Written(v) == IF IsNumber(v) THEN NumCell(v.n) ELSE TextCell(PyToStr(v))
Setter(v) == IF IsNumber(v) THEN "setValue" ELSE "setString"
\* a test for the empty text that does not trim
BlankUntrimmed(text) == text = ""
\* text.strip() == ""
Blank(text) == text \in {"", " "}
PutCell(w, sh, a, c) == [w EXCEPT !.docs[sh.doc].cells[sh.sid][a] = c]
CellsOf(w, sh) == w.docs[sh.doc].cells[sh.sid]

\* --------------------------------------------------------- _get_sheet
Ok(w, x) == [ok |-> TRUE, exc |-> <<>>, val |-> x, w |-> w]
Raise(w, exc) == [ok |-> FALSE, exc |-> exc, val |-> NoSheet, w |-> w]

\* a lookup without the fallback: an unknown sheet name is an error
get_sheet_strict(w, sheet_name, F) ==
  IF IsNone(sheet_name) THEN Ok(w, w.self.current_sheet)
  ELSE
    LET d == w.self.document
        wa == Call(w, "getSheets")
        wb == Call(wa, "getByName")
        i == SheetIdx(w, d, Val(sheet_name))
    IN IF d = 0 THEN Raise(w, AttributeError("getSheets"))
       ELSE IF "getSheets" \in F \/ ~DocOpen(w, d) THEN Raise(wa, EngineError("getSheets"))
       ELSE IF "getByName" \in F \/ i = 0 THEN Raise(wb, EngineError("getByName"))
       ELSE Ok(wb, SheetAt(w, d, i))
get_sheet(w, sheet_name, F) ==
  IF IsNone(sheet_name) THEN Ok(w, w.self.current_sheet)
  ELSE
    LET d == w.self.document
        wa == Call(w, "getSheets")
        wb == Call(wa, "getByName")
        i == SheetIdx(w, d, Val(sheet_name))
    IN IF d = 0 THEN Raise(w, AttributeError("getSheets"))
       ELSE IF "getSheets" \in F \/ ~DocOpen(w, d) THEN Raise(wa, EngineError("getSheets"))
       ELSE IF "getByName" \in F \/ i = 0
         THEN Ok(Thrown(wb, "_get_sheet", EngineError("getByName")), w.self.current_sheet)
       ELSE Ok(wb, SheetAt(w, d, i))

\* sheet = self._get_sheet(sheet_name); sheet.getCellRangeByName(name)
OnSheet(w, r, name, F) ==
  LET wa == Call(r.w, "getCellRangeByName")
  IN IF ~r.ok THEN r
     ELSE IF r.val = NoSheet THEN Raise(r.w, AttributeError("getCellRangeByName"))
     ELSE IF "getCellRangeByName" \in F \/ ~SheetLive(w, r.val) \/ ~ValidRange(name)
       THEN Raise(wa, EngineError("getCellRangeByName"))
     ELSE Ok(wa, r.val)
Resolve(w, params, name, F) == OnSheet(w, get_sheet(w, Get(params, "sheet"), F), name, F)

\* a handler ending that also makes the addressed sheet the current one
NamedSelecting(w, sh, F, prefix, result, data) ==
  LET wa == Call(w, "getName")
  IN IF "getName" \in F THEN Trap(wa, prefix, EngineError("getName"))
     ELSE [w |-> [wa EXCEPT !.self.current_sheet = sh],
           obs |-> [Observation(result, TRUE) EXCEPT
                      !.data = data, !.current_sheet = Some(NameOf(wa, sh))]]
\* sheet.getName() at the end of a cell handler
Named(w, sh, F, prefix, result, data) ==
  LET wa == Call(w, "getName")
  IN IF "getName" \in F THEN Trap(wa, prefix, EngineError("getName"))
     ELSE [w |-> wa,
           obs |-> [Observation(result, TRUE) EXCEPT
                      !.data = data, !.current_sheet = Some(NameOf(wa, sh))]]

Missing(w, result, message) == [w |-> w, obs |-> Failure(<<result>>, <<message>>)]
Fault(w, call, prefix) == Trap(Call(w, call), prefix, EngineError(call))

\* ------------------------------------------------------- cell handlers
set_cell(w, params, F) ==
  IF ~Truthy(params, "cell") THEN Missing(w, "No cell specified", "cell parameter is required")
  ELSE
    LET cell == params.cell
        value == IF Has(params, "value") THEN params.value ELSE PyNone
        r == Resolve(w, params, cell, F)
        wa == PutCell(Call(r.w, Setter(value)), r.val, cell, Written(value))
    IN IF ~r.ok THEN Trap(r.w, "Error setting cell: ", r.exc)
       ELSE IF Setter(value) \in F THEN Fault(r.w, Setter(value), "Error setting cell: ")
       ELSE Named(wa, r.val, F, "Error setting cell: ",
                  <<"Cell ", cell, " set to ", PyToStr(value)>>, None)

get_cell(w, params, F) ==
  IF ~Truthy(params, "cell") THEN Missing(w, "No cell specified", "cell parameter is required")
  ELSE
    LET cell == params.cell
        r == Resolve(w, params, cell, F)
        wa == Call(r.w, "getString")
        text == CellString(CellsOf(w, r.val), cell)
        blank == Blank(text)
        wb == IF blank THEN Call(wa, "getValue") ELSE wa
        value == IF blank THEN PyNum(CellValue(CellsOf(w, r.val), cell)) ELSE PyStr(text)
    IN IF ~r.ok THEN Trap(r.w, "Error getting cell: ", r.exc)
       ELSE IF "getString" \in F THEN Fault(r.w, "getString", "Error getting cell: ")
       ELSE IF blank /\ "getValue" \in F THEN Fault(wa, "getValue", "Error getting cell: ")
       ELSE Named(wb, r.val, F, "Error getting cell: ",
                  <<"Retrieved value from cell ", cell>>, Some(value))

\* the double loop of _set_range over one row of values, left to right
RECURSIVE WriteRow(_, _, _, _, _, _, _)
WriteRow(w, sh, col, at, row, j, F) ==
  IF j > Len(row) THEN [ok |-> TRUE, exc |-> <<>>, w |-> w]
  ELSE
    LET wa == Call(w, "getCellByPosition")
        wb == Call(wa, Setter(row[j]))
        wc == PutCell(wb, sh, AddrAt(col + j - 1, at), Written(row[j]))
    IN IF "getCellByPosition" \in F
         THEN [ok |-> FALSE, exc |-> EngineError("getCellByPosition"), w |-> wa]
       ELSE IF Setter(row[j]) \in F
         THEN [ok |-> FALSE, exc |-> EngineError(Setter(row[j])), w |-> wb]
       ELSE WriteRow(wc, sh, col, at, row, j + 1, F)
\* the rows of values, top to bottom; x is the outcome of row i
RECURSIVE WriteRows(_, _, _, _, _, _, _)
RowWritten(x, sh, col, row, values, i, F) ==
  IF ~x.ok THEN x ELSE WriteRows(x.w, sh, col, row, values, i + 1, F)
WriteRows(w, sh, col, row, values, i, F) ==
  IF i > Len(values) THEN [ok |-> TRUE, exc |-> <<>>, w |-> w]
  ELSE RowWritten(WriteRow(w, sh, col, row + i - 1, values[i], 1, F),
                  sh, col, row, values, i, F)

set_range(w, params, F) ==
  IF ~Truthy(params, "range") \/ ~Truthy(params, "values")
    THEN Missing(w, "Range and values required", "range and values parameters are required")
  ELSE
    LET range == params.range
        r == Resolve(w, params, range, F)
        x == WriteRows(r.w, r.val, StartCol(range), StartRow(range), params.values, 1, F)
    IN IF ~r.ok THEN Trap(r.w, "Error setting range: ", r.exc)
       ELSE IF ~x.ok THEN Trap(x.w, "Error setting range: ", x.exc)
       ELSE Named(x.w, r.val, F, "Error setting range: ",
                  <<"Range ", range, " set successfully.">>, None)

get_range(w, params, F) ==
  IF ~Truthy(params, "range") THEN Missing(w, "No range specified", "range parameter is required")
  ELSE
    LET range == params.range
        r == Resolve(w, params, range, F)
        wa == Call(r.w, "getDataArray")
        cs == CellsOf(w, r.val)
        data == <<[j \in 1..RangeCols(range) |-> CellData(cs, AddrAt(StartCol(range) + j - 1, StartRow(range)))]>>
    IN IF ~r.ok THEN Trap(r.w, "Error getting range: ", r.exc)
       ELSE IF "getDataArray" \in F THEN Fault(r.w, "getDataArray", "Error getting range: ")
       ELSE Named(wa, r.val, F, "Error getting range: ",
                  <<"Retrieved data from range ", range>>, Some(data))

\* a set_formula that checks the cell parameter only
set_formula_cell_only(w, params, F) ==
  IF ~Truthy(params, "cell")
    THEN Missing(w, "Cell and formula required", "cell and formula parameters are required")
  ELSE
    LET cell == params.cell
        formula == IF Has(params, "formula") THEN params.formula ELSE "None"
        r == Resolve(w, params, cell, F)
        wa == PutCell(Call(r.w, "setFormula"), r.val, cell, EnterFormula(formula))
    IN IF ~r.ok THEN Trap(r.w, "Error setting formula: ", r.exc)
       ELSE IF "setFormula" \in F THEN Fault(r.w, "setFormula", "Error setting formula: ")
       ELSE Named(wa, r.val, F, "Error setting formula: ",
                  <<"Formula set in cell ", cell, ": ", formula>>, None)

set_formula(w, params, F) ==
  IF ~Truthy(params, "cell") \/ ~Truthy(params, "formula")
    THEN Missing(w, "Cell and formula required", "cell and formula parameters are required")
  ELSE
    LET cell == params.cell
        r == Resolve(w, params, cell, F)
        wa == PutCell(Call(r.w, "setFormula"), r.val, cell, EnterFormula(params.formula))
    IN IF ~r.ok THEN Trap(r.w, "Error setting formula: ", r.exc)
       ELSE IF "setFormula" \in F THEN Fault(r.w, "setFormula", "Error setting formula: ")
       ELSE Named(wa, r.val, F, "Error setting formula: ",
                  <<"Formula set in cell ", cell, ": ", params.formula>>, None)

get_formula(w, params, F) ==
  IF ~Truthy(params, "cell") THEN Missing(w, "No cell specified", "cell parameter is required")
  ELSE
    LET cell == params.cell
        r == Resolve(w, params, cell, F)
        wa == Call(r.w, "getFormula")
        formula == PyStr(CellFormula(CellsOf(w, r.val), cell))
    IN IF ~r.ok THEN Trap(r.w, "Error getting formula: ", r.exc)
       ELSE IF "getFormula" \in F THEN Fault(r.w, "getFormula", "Error getting formula: ")
       ELSE Named(wa, r.val, F, "Error getting formula: ",
                  <<"Retrieved formula from cell ", cell>>, Some(formula))

format_cell(w, params, F) ==
  IF ~Truthy(params, "cell") THEN Missing(w, "No cell specified", "cell parameter is required")
  ELSE
    LET cell == params.cell
        r == Resolve(w, params, cell, F)
        styled == Has(params, "format_options") /\ params.format_options # ""
        wa == IF styled THEN Call(r.w, "setPropertyValue") ELSE r.w
    IN IF ~r.ok THEN Trap(r.w, "Error formatting cell: ", r.exc)
       ELSE IF styled /\ "setPropertyValue" \in F
         THEN Fault(r.w, "setPropertyValue", "Error formatting cell: ")
       ELSE Named(wa, r.val, F, "Error formatting cell: ",
                  <<"Cell ", cell, " formatted successfully">>, None)

\* ------------------------------------------------------ sheet handlers
\* an exception that leaves the handler and reaches _execute_command
Throw(w, exc) == [w |-> w, exc |-> exc]

\* getName() of a sheet reference that may be None, live or disposed: a
\* disposed reference raises or answers with an empty name
GetName(w, sh, F) ==
  LET wa == Call(w, "getName")
  IN IF sh = NoSheet THEN [ok |-> FALSE, exc |-> AttributeError("getName"), val |-> "", w |-> w]
     ELSE IF "getName" \in F \/ (~SheetLive(w, sh) /\ "stale_raise" \in F)
       THEN [ok |-> FALSE, exc |-> EngineError("getName"), val |-> "", w |-> wa]
     ELSE IF ~SheetLive(w, sh) THEN [ok |-> TRUE, exc |-> <<>>, val |-> "", w |-> wa]
     ELSE [ok |-> TRUE, exc |-> <<>>, val |-> NameOf(w, sh), w |-> wa]

create_sheet(w, params, F) ==
  LET n == GetName(w, w.self.current_sheet, F)
      m == GetName(n.w, w.self.current_sheet, F)
  IN IF ~n.ok THEN Throw(n.w, n.exc)
     ELSE [w |-> m.w,
           obs |-> [Observation(<<"New spreadsheet created">>, TRUE) EXCEPT
                      !.current_sheet = Some(n.val), !.sheet_names = Some(<<n.val>>)]]

\* [sheets.getByIndex(i).getName() for i in range(sheets.getCount())]
ListNames(w, d, F, prefix, obsOk) ==
  LET wa == Call(w, "getCount")
      wb == Call(Call(wa, "getByIndex"), "getName")
  IN IF "getCount" \in F THEN Fault(w, "getCount", prefix)
     ELSE IF "getByIndex" \in F THEN Fault(wa, "getByIndex", prefix)
     ELSE IF "getName" \in F THEN Fault(Call(wa, "getByIndex"), "getName", prefix)
     ELSE [w |-> wb, obs |-> [obsOk EXCEPT !.sheet_names = Some(SheetNames(wb, d))]]

FreeSheetIds(w, d) ==
  {i \in SheetIds : /\ \A k \in 1..Len(w.docs[d].sheets) : w.docs[d].sheets[k].sid # i
                    /\ ~(w.self.current_sheet.doc = d /\ w.self.current_sheet.sid = i)}
NewSheetId(w, d) == CHOOSE i \in FreeSheetIds(w, d) : \A k \in FreeSheetIds(w, d) : i <= k

add_sheet(w, params, F) ==
  LET d == w.self.document
      wa == Call(w, "getSheets")
      wb == Call(wa, "getCount")
      sheet_name == IF Has(params, "name") THEN params.name
                    ELSE SheetName(Len(w.docs[d].sheets) + 1)
      wc == Call(Call(Call(wb, "getSheets"), "getCount"), "insertNewByName")
      wd == [wc EXCEPT !.docs[d].sheets =
                         Append(@, [sid |-> NewSheetId(w, d), name |-> sheet_name]),
                       !.docs[d].cells[NewSheetId(w, d)] = [a \in Addrs |-> EmptyCell]]
      prefix == "Error adding sheet: "
  IN IF d = 0 THEN Throw(w, AttributeError("getSheets"))
     ELSE IF "getSheets" \in F \/ ~DocOpen(w, d) THEN Throw(wa, EngineError("getSheets"))
     ELSE IF "getCount" \in F THEN Throw(wb, EngineError("getCount"))
     ELSE IF "insertNewByName" \in F
       THEN Fault(Call(Call(wb, "getSheets"), "getCount"), "insertNewByName", prefix)
     ELSE IF sheet_name = "" \/ SheetIdx(w, d, sheet_name) # 0
       THEN Trap(wc, prefix, NameClash(sheet_name))
     ELSE ListNames(wd, d, F, prefix,
            [Observation(<<"Sheet '", sheet_name, "' added successfully">>, TRUE) EXCEPT
               !.current_sheet = Some(sheet_name)])

RemoveAt(seq, i) == [k \in 1..(Len(seq) - 1) |-> IF k < i THEN seq[k] ELSE seq[k + 1]]

delete_sheet(w, params, F) ==
  IF ~Truthy(params, "name") THEN Missing(w, "No sheet name specified", "name parameter is required")
  ELSE
    LET d == w.self.document
        sheet_name == params.name
        prefix == "Error deleting sheet: "
        i == SheetIdx(w, d, sheet_name)
        wa == Call(w, "getSheets")
        wb == Call(wa, "getByName")
        wc == [Call(wb, "remove") EXCEPT !.docs[d].sheets = RemoveAt(@, i),
                 !.docs[d].cells[w.docs[d].sheets[i].sid] = [a \in Addrs |-> EmptyCell]]
        cur == w.self.current_sheet
        wasCurrent == cur.doc = d /\ cur.sid = w.docs[d].sheets[i].sid
        \* the removed sheet still answers with its old name unless the
        \* engine has disposed it
        n == IF wasCurrent /\ "stale_raise" \notin F /\ "stale_empty" \notin F /\ "getName" \notin F
             THEN [ok |-> TRUE, exc |-> <<>>, val |-> sheet_name, w |-> Call(wc, "getName")]
             ELSE GetName(wc, cur, F)
        we == IF n.val = sheet_name
              THEN [Call(n.w, "getByIndex") EXCEPT !.self.current_sheet = SheetAt(wc, d, 1)]
              ELSE n.w
        m == GetName(we, we.self.current_sheet, F)
        r == ListNames(we, d, F, prefix,
               Observation(<<"Sheet '", sheet_name, "' deleted successfully">>, TRUE))
    IN IF d = 0 THEN Trap(w, prefix, AttributeError("getSheets"))
       ELSE IF "getSheets" \in F \/ ~DocOpen(w, d) THEN Fault(w, "getSheets", prefix)
       ELSE IF "getByName" \in F \/ i = 0 THEN Fault(wa, "getByName", prefix)
       ELSE IF "remove" \in F \/ Len(w.docs[d].sheets) = 1 THEN Fault(wb, "remove", prefix)
       ELSE IF ~n.ok THEN Trap(n.w, prefix, n.exc)
       ELSE IF n.val = sheet_name /\ "getByIndex" \in F THEN Fault(n.w, "getByIndex", prefix)
       ELSE IF ~r.obs.success THEN r
       ELSE IF ~m.ok THEN Trap(m.w, prefix, m.exc)
       ELSE [w |-> Call(r.w, "getName"),
             obs |-> [r.obs EXCEPT !.current_sheet = Some(m.val)]]

rename_sheet(w, params, F) ==
  IF ~Truthy(params, "old_name") \/ ~Truthy(params, "new_name")
    THEN Missing(w, "Old and new names required", "old_name and new_name parameters are required")
  ELSE
    LET d == w.self.document
        old_name == params.old_name
        new_name == params.new_name
        prefix == "Error renaming sheet: "
        i == SheetIdx(w, d, old_name)
        wa == Call(w, "getSheets")
        wb == Call(wa, "getByName")
        wc == [Call(wb, "setName") EXCEPT !.docs[d].sheets[i].name = new_name]
        n == GetName(wc, w.self.current_sheet, F)
        wd == IF n.val = old_name
              THEN [n.w EXCEPT !.self.current_sheet = SheetAt(wc, d, i)]
              ELSE n.w
    IN IF d = 0 THEN Trap(w, prefix, AttributeError("getSheets"))
       ELSE IF "getSheets" \in F \/ ~DocOpen(w, d) THEN Fault(w, "getSheets", prefix)
       ELSE IF "getByName" \in F \/ i = 0 THEN Fault(wa, "getByName", prefix)
       ELSE IF "setName" \in F \/ SheetIdx(w, d, new_name) \notin {0, i}
         THEN Fault(wb, "setName", prefix)
       ELSE IF ~n.ok THEN Trap(n.w, prefix, n.exc)
       ELSE ListNames(wd, d, F, prefix,
              [Observation(<<"Sheet renamed from '", old_name, "' to '", new_name, "'">>, TRUE)
                 EXCEPT !.current_sheet = Some(new_name)])

\* ----------------------------------------------------- export handlers
export_pdf(w, params, F) ==
  IF ~Truthy(params, "file_path") THEN [w |-> w, obs |-> OpenFileMissing]
  ELSE
    LET path == params.file_path
        d == w.self.document
        prefix == "Error exporting PDF: "
        wa == Call(w, "makedirs")
        wb == Call(wa, "storeToURL")
        exists == "file_not_written" \notin F
    IN IF "makedirs" \in F THEN Trap(wa, prefix, <<"makedirs failed">>)
       ELSE IF "dir_not_writable" \in F
         THEN [w |-> wa, obs |-> Failure(<<"Directory not writable: ", path>>,
                                         <<"Target directory is not writable">>)]
       ELSE IF d = 0 THEN Trap(wa, prefix, AttributeError("storeToURL"))
       ELSE IF "storeToURL" \in F \/ ~DocOpen(w, d) THEN Fault(wa, "storeToURL", prefix)
       ELSE [w |-> wb,
             obs |-> [Observation(IF exists THEN <<"PDF export completed">>
                                  ELSE <<"Export command issued but file not found">>, exists)
                        EXCEPT !.data = Some([exported_file |-> path])]]

export_csv(w, params, F) ==
  IF ~Truthy(params, "file_path") THEN [w |-> w, obs |-> OpenFileMissing]
  ELSE
    LET path == params.file_path
        d == w.self.document
        prefix == "Error exporting CSV: "
        wa == Call(w, "storeToURL")
    IN IF d = 0 THEN Trap(w, prefix, AttributeError("storeToURL"))
       ELSE IF "storeToURL" \in F \/ ~DocOpen(w, d) THEN Fault(w, "storeToURL", prefix)
       ELSE [w |-> wa,
             obs |-> [Observation(<<"CSV exported successfully: ", path>>, TRUE)
                        EXCEPT !.data = Some([exported_file |-> path])]]

\* ------------------------------------------------------------ dispatch
Supported ==
  {"create_sheet", "open_file", "save_file", "set_cell", "get_cell", "set_range",
   "get_range", "set_formula", "get_formula", "add_sheet", "delete_sheet",
   "rename_sheet", "format_cell", "export_pdf", "export_csv"}
\* listed in the documentation of LibreOfficeAction.command, not dispatched
Unimplemented == {"copy_range", "paste_range", "sort_range", "filter_range", "create_chart"}
Commands == Supported \cup Unimplemented \cup {"unknown_command"}

NotInitialized ==
  Failure(<<"LibreOffice not initialized">>, <<"LibreOffice connection failed">>)
\* an unknown-command failure that does not say which command
UnknownCommandUnnamed(command) ==
  Failure(<<"Unknown command">>, <<"Command not supported">>)
UnknownCommand(command) ==
  Failure(<<"Unknown command: ", command>>, <<"Command '", command, "' not supported">>)

\* a dispatcher that accepts what it does not know
OtherwiseAccepted(w, command) ==
  [w |-> w, obs |-> Observation(<<"Command accepted: ", command>>, TRUE)]
\* the else branch of the chain
Otherwise(w, command) == [w |-> w, obs |-> UnknownCommand(command)]

\* the if/elif chain of _execute_command
Dispatch(w, command, params, F) ==
  CASE command = "create_sheet" -> create_sheet(w, params, F)
    [] command = "open_file" -> open_file(w, params, F)
    [] command = "save_file" -> save_file(w, params, F)
    [] command = "set_cell" -> set_cell(w, params, F)
    [] command = "get_cell" -> get_cell(w, params, F)
    [] command = "set_range" -> set_range(w, params, F)
    [] command = "get_range" -> get_range(w, params, F)
    [] command = "set_formula" -> set_formula(w, params, F)
    [] command = "get_formula" -> get_formula(w, params, F)
    [] command = "add_sheet" -> add_sheet(w, params, F)
    [] command = "delete_sheet" -> delete_sheet(w, params, F)
    [] command = "rename_sheet" -> rename_sheet(w, params, F)
    [] command = "format_cell" -> format_cell(w, params, F)
    [] command = "export_pdf" -> export_pdf(w, params, F)
    [] command = "export_csv" -> export_csv(w, params, F)
    [] OTHER -> Otherwise(w, command)

\* a dispatcher that tests the document handle instead of the flag
RejectsWithoutDocument(w) == w.self.document = 0
\* the flag _execute_command tests before it dispatches
Rejects(w) == ~w.self.initialized

\* the try block of _execute_command around the handler's outcome r
Dispatched(r, h) ==
  IF "exc" \in DOMAIN r
    THEN [w |-> Thrown(r.w, "_execute_command", r.exc),
          obs |-> Caught("Error executing command: ", r.exc), handler |-> h]
  ELSE [w |-> r.w, obs |-> r.obs, handler |-> h]

execute_command(w, command, params, F) ==
  IF Rejects(w) THEN [w |-> w, obs |-> NotInitialized, handler |-> "none"]
  ELSE Dispatched(Dispatch(w, command, params, F),
                  IF command \in Supported THEN command ELSE "none")

\* ------------------------------------------------------------- inputs
EmptyParams == <<>>
\* parameters=None, the dataclass default
NoParameters == [is_none |-> TRUE]
IsMapping(p) == "is_none" \notin DOMAIN p
\* a constructor that leaves None in place
post_init_kept(parameters) == parameters
\* LibreOfficeAction.__post_init__
post_init(parameters) == IF IsMapping(parameters) THEN parameters ELSE EmptyParams
\* `parameters or {}`: None and the empty mapping are both falsy
OrEmpty(p) == IF ~IsMapping(p) \/ DOMAIN p = {} THEN EmptyParams ELSE p
\* LibreOfficeEnv._step_payload
step_payload(a) == [command |-> a.command, parameters |-> OrEmpty(a.parameters)]
Row5x == <<PyNum(5), PyStr("x")>>
Col5x == <<<<PyNum(5)>>, <<PyStr("x")>>>>
ParamsOf(command) ==
  CASE command \in {"open_file"} ->
         {EmptyParams, [file_path |-> ""], [file_path |-> WorkPath], [file_path |-> MissingPath]}
    [] command \in {"save_file", "export_csv", "export_pdf"} ->
         {EmptyParams, [file_path |-> ""], [file_path |-> WorkPath]}
    [] command = "set_cell" ->
         {EmptyParams, [value |-> PyNum(5)], [cell |-> "", value |-> PyNum(5)],
          [cell |-> "A1", value |-> PyNum(5)],
          [cell |-> "A1", value |-> PyStr(" ")],
          [cell |-> "B1", value |-> PyBool(TRUE)],
          [cell |-> "A1", value |-> PyStr("x"), sheet |-> "Sheet2"]}
    [] command \in {"get_cell", "get_formula"} ->
         {EmptyParams, [cell |-> ""], [cell |-> "A1"], [cell |-> "B1"],
          [cell |-> "A1", sheet |-> "Sheet2"]}
    [] command = "set_range" ->
         {EmptyParams, [range |-> "A1:B1"], [values |-> <<Row5x>>],
          [range |-> "A1:B1", values |-> <<>>], [range |-> "", values |-> <<Row5x>>],
          [range |-> "A1:B1", values |-> <<Row5x>>],
          [range |-> "A1:B1", values |-> Col5x], [range |-> "A1", values |-> <<Row5x>>],
          [range |-> "B1", values |-> Col5x], [range |-> "A2", values |-> <<Row5x>>]}
    [] command = "get_range" ->
         {EmptyParams, [range |-> ""], [range |-> "A1:B1"]}
    [] command = "set_formula" ->
         {EmptyParams, [cell |-> "B1"], [formula |-> "=A1+5"], [cell |-> "B1", formula |-> ""],
          [cell |-> "", formula |-> "=A1+5"], [cell |-> "B1", formula |-> "=A1+5"]}
    [] command = "add_sheet" ->
         {EmptyParams, [name |-> "Sheet1"]}
    [] command = "delete_sheet" ->
         {EmptyParams, [name |-> ""], [name |-> "Sheet1"]}
    [] command = "rename_sheet" ->
         {EmptyParams, [old_name |-> "Sheet1"], [new_name |-> "Data"],
          [old_name |-> "", new_name |-> "Data"], [old_name |-> "Sheet1", new_name |-> ""],
          [old_name |-> "Sheet1", new_name |-> "Data"],
          [old_name |-> "Sheet1", new_name |-> "Sheet2"]}
    [] command = "format_cell" ->
         {EmptyParams, [cell |-> ""], [cell |-> "A1", format_options |-> "bold"]}
    [] OTHER -> {EmptyParams}

\* the capabilities a command can reach
FaultsOf(command) ==
  CASE command = "create_sheet" -> {"getName", "stale_raise"}
    [] command = "open_file" ->
         {"close", "createInstance", "loadComponentFromURL", "load_returns_none",
          "getSheets", "getByIndex", "getCount", "getName"}
    [] command = "save_file" -> {"storeAsURL"}
    [] command = "set_cell" ->
         {"getSheets", "getByName", "getCellRangeByName", "setValue", "setString", "getName"}
    [] command = "get_cell" ->
         {"getSheets", "getByName", "getCellRangeByName", "getString", "getValue", "getName"}
    [] command = "set_range" ->
         {"getSheets", "getByName", "getCellRangeByName", "getCellByPosition",
          "setValue", "setString", "getName"}
    [] command = "get_range" ->
         {"getSheets", "getByName", "getCellRangeByName", "getDataArray", "getName"}
    [] command = "set_formula" ->
         {"getSheets", "getByName", "getCellRangeByName", "setFormula", "getName"}
    [] command = "get_formula" ->
         {"getSheets", "getByName", "getCellRangeByName", "getFormula", "getName"}
    [] command = "add_sheet" ->
         {"getSheets", "getCount", "insertNewByName", "getByIndex", "getName"}
    [] command = "delete_sheet" ->
         {"getSheets", "getByName", "remove", "getByIndex", "getCount", "getName",
          "stale_raise", "stale_empty"}
    [] command = "rename_sheet" ->
         {"getSheets", "getByName", "setName", "getCount", "getByIndex", "getName",
          "stale_raise"}
    [] command = "format_cell" ->
         {"getSheets", "getByName", "getCellRangeByName", "setPropertyValue", "getName"}
    [] command = "export_pdf" ->
         {"makedirs", "dir_not_writable", "storeToURL", "file_not_written"}
    [] command = "export_csv" -> {"storeToURL"}
    [] OTHER -> {}

\* one capability fails during a call, or none; a failed sheet lookup by name
\* does not end the call, so a second capability may fail after it
FaultSets(points) ==
  {{}} \cup {{x} : x \in points}
       \cup {{"getByName", x} : x \in {y \in points : "getByName" \in points}}

\* --------------------------------------------------------------- Init
NoObservation == Observation(<<>>, FALSE)
NoAction == [command |-> "", parameters |-> EmptyParams]
ConstructedId == 1

Init ==
  /\ \E cfg \in {[base |-> None, goal |-> None],
                 [base |-> Some(BasePath), goal |-> Some(GoalPath)]} :
       self = [state |-> [episode_id |-> ConstructedId, step_count |-> 0],
               reset_count |-> 0,
               libreoffice_context |-> 0,
               document |-> 0,
               current_sheet |-> NoSheet,
               file_path |-> None,
               temp_dir |-> 0,
               initialized |-> FALSE,
               base_excel |-> cfg.base,
               goal_excel |-> cfg.goal]
  /\ docs = [d \in DocIds |-> ClosedDoc]
  /\ running = FALSE
  /\ dirs = {}
  /\ files = (BasePath :> BaseContent)
  /\ uno_installed \in BOOLEAN
  /\ uuids = ConstructedId
  /\ lastOp = "init"
  /\ action = NoAction
  /\ handler = "none"
  /\ obs = NoObservation
  /\ raised = None
  /\ trace = <<>>
  /\ thrown = <<>>
  /\ stepCalls = 0
  /\ life = [readied |-> FALSE, failed |-> FALSE, closed |-> FALSE, closes |-> 0]

\* the world after an operation becomes the state
Commit(w) ==
  /\ self' = w.self
  /\ docs' = w.docs
  /\ running' = w.running
  /\ dirs' = w.dirs
  /\ files' = w.files
  /\ trace' = w.trace
  /\ thrown' = w.thrown

\* --------------------------------------------------------------- step
\* a step counter that advances only while the environment is initialized
CountedWhenReady(w) ==
  IF w.self.initialized THEN [w EXCEPT !.self.state.step_count = @ + 1] ELSE w
\* self._state.step_count += 1
Counted(w) == [w EXCEPT !.self.state.step_count = @ + 1]

\* a reward that does not look at the outcome
StepRewardFlat(o) == 10
\* observation.reward, in tenths
StepReward(o) == IF o.success THEN 10 ELSE -1

\* metadata that names the handler reached instead of the command asked for
StepMetadataOfHandler(r, command) ==
  [step |-> r.w.self.state.step_count, command |-> r.handler,
   episode_id |-> r.w.self.state.episode_id]
\* observation.metadata = {"step": ..., "command": ..., "episode_id": ...}
StepMetadata(r, command) ==
  [step |-> r.w.self.state.step_count, command |-> command,
   episode_id |-> r.w.self.state.episode_id]

\* step, once _execute_command has returned r: metadata, reward and done
Returned(command, params, r) ==
  /\ Commit(r.w)
  /\ obs' = [r.obs EXCEPT
               !.metadata = Some(StepMetadata(r, command)),
               !.reward = Some(StepReward(r.obs)),
               !.done = FALSE]
  /\ handler' = r.handler
  /\ action' = [command |-> command, parameters |-> params]
  /\ raised' = None

StepWith(command, P, Fs) ==
  /\ self.state.step_count < MaxSteps
  /\ IF command = "add_sheet" /\ self.document # 0
     THEN Len(docs[self.document].sheets) < MaxSheets
     ELSE TRUE
  /\ \E given \in P \cup {NoParameters}, F \in Fs :
       Returned(command, post_init(given),
                execute_command(Counted(World), command, OrEmpty(post_init(given)), F))
  /\ lastOp' = "step"
  /\ stepCalls' = stepCalls + 1
  /\ life' = [life EXCEPT !.closes = 0]
  /\ UNCHANGED <<uno_installed, uuids>>

\* -------------------------------------------------------------- reset
InitFaults ==
  {"getComponentContext", "createResolver", "resolve", "createInstance",
   "loadComponentFromURL", "load_returns_none", "getSheets", "getByIndex", "mkdtemp",
   "getName", "stale_raise"}
Refusals == {0, 1, ConnectAttempts}
\* the failures of one reset: teardown failures, then either refused
\* connection attempts, or one failing capability, or a failing base document
ResetInputs ==
  {[F |-> A, fails |-> k] :
     A \in {{}, {"close"}, {"rmtree"}},
     k \in Refusals}
  \cup
  {[F |-> A \cup {x}, fails |-> 0] :
     A \in {{}, {"close"}, {"rmtree"}},
     x \in InitFaults \cup {"base_load", "base_none"}}

\* uuid.uuid4(): an identifier never handed out before
Uuid4 == uuids + 1
\* a reset that zeroes the counter and keeps the episode identifier
KeptState == [episode_id |-> self.state.episode_id, step_count |-> 0]
\* State(episode_id=str(uuid.uuid4()), step_count=0)
NewState == [episode_id |-> Uuid4, step_count |-> 0]

ImportError == <<"No module named 'uno'">>

\* reset, once _initialize_libreoffice has returned r: the observation built
\* from the current sheet's name (n is the outcome of its getName())
Ready(r, cur, n) ==
  IF cur # NoSheet /\ ~n.ok
    THEN /\ Commit(Thrown(n.w, "", n.exc))
         /\ raised' = Some(n.exc)
         /\ obs' = NoObservation
  ELSE /\ Commit(IF cur = NoSheet THEN r.w ELSE Call(n.w, "getName"))
       /\ raised' = None
       /\ obs' = [Observation(<<"LibreOffice environment ready!">>, TRUE) EXCEPT
                    !.current_sheet = IF cur = NoSheet THEN None ELSE Some(n.val),
                    !.sheet_names = Some(IF cur = NoSheet THEN <<>> ELSE <<n.val>>),
                    !.done = FALSE, !.reward = Some(0)]

\* reset after the new State: wb is the world at the call of
\* _initialize_libreoffice and r what the call returns
Initialized(wb, r, F) ==
  IF ~uno_installed
    THEN /\ Commit(Thrown(wb, "", ImportError))
         /\ raised' = Some(ImportError)
         /\ obs' = NoObservation
         /\ life' = [life EXCEPT !.failed = TRUE, !.closes = 0]
  ELSE IF ~r.ret
    THEN /\ Commit(r.w)
         /\ raised' = None
         /\ obs' = [Failure(<<"Failed to initialize LibreOffice">>,
                            <<"Could not connect to LibreOffice">>)
                      EXCEPT !.done = FALSE, !.reward = Some(0)]
         /\ life' = [life EXCEPT !.failed = TRUE, !.closes = 0]
  ELSE /\ Ready(r, r.w.self.current_sheet, GetName(r.w, r.w.self.current_sheet, F))
       /\ life' = [readied |-> TRUE, failed |-> FALSE, closed |-> FALSE, closes |-> 0]

\* _cleanup_libreoffice(), then the new State and reset_count += 1
Renewed(wa) == [wa EXCEPT !.self.state = NewState, !.self.reset_count = @ + 1]
Begun(wb, F, fails) == Initialized(wb, initialize_libreoffice(wb, F, fails), F)

ResetWith(inputs) ==
  /\ uuids <= MaxResets
  /\ \E in \in inputs :
       Begun(Renewed(cleanup_libreoffice(World, in.F)), in.F, in.fails)
  /\ uuids' = Uuid4
  /\ lastOp' = "reset"
  /\ action' = NoAction
  /\ handler' = "none"
  /\ stepCalls' = 0
  /\ UNCHANGED uno_installed

\* -------------------------------------------------------------- close
ClosePoints == {"close", "createInstance", "terminate", "storeAsURL", "rmtree"}
\* no teardown step fails, or one, or every one
CloseFaultSets == {{}, ClosePoints} \cup {{x} : x \in ClosePoints}

\* a section of close: the world it leaves and the exception that leaves it
Done(w) == [w |-> w, esc |-> None]
Escapes(w, exc) == [w |-> w, esc |-> Some(exc)]
\* a section of close without its own try block
Unguarded(r) == r
\* "try: ... except Exception as e: print(...)" around a section of close
Guarded(r) ==
  IF IsNone(r.esc) THEN r ELSE Done(Thrown(r.w, "close", Val(r.esc)))

\* self._document.close(True); self._document = None
CloseDocument(w, F) ==
  LET d == w.self.document
      wa == Call(w, "close")
  IN IF d = 0 THEN Done(w)
     ELSE IF "close" \in F \/ ~DocOpen(w, d) THEN Escapes(wa, EngineError("close"))
     ELSE Done([CloseDoc(wa, d) EXCEPT !.self.document = 0])

\* desktop = ...createInstanceWithContext(...); desktop.terminate()
TerminateDesktop(w, F) ==
  LET wa == Call(w, "createInstance")
      wb == Call(wa, "terminate")
  IN IF w.self.libreoffice_context = 0 THEN Done(w)
     ELSE IF "createInstance" \in F \/ ~w.running
       THEN Escapes(wa, EngineError("createInstance"))
     ELSE IF "terminate" \in F THEN Escapes(wb, EngineError("terminate"))
     ELSE Done(Terminate(wb))

\* save_obs = self._save_file({"file_path": self._goal_excel})
SaveGoal(w, F) ==
  LET goal == w.self.goal_excel
  IN IF IsNone(goal) \/ Val(goal) = "" THEN Done(w)
     ELSE Done(save_file(w, [file_path |-> Val(goal)], F).w)

\* a close that leaves the flag set
StillInitialized(w) == w
\* a close that also discards the episode
ReleasedAndForgotten(w) ==
  [w EXCEPT !.self.initialized = FALSE,
            !.self.state = [episode_id |-> 0, step_count |-> 0]]
\* self._initialized = False
Released(w) == [w EXCEPT !.self.initialized = FALSE]

CloseWith(Fs) ==
  /\ \E F \in Fs :
       LET a == Guarded(CloseDocument(World, F))
           b == Guarded(TerminateDesktop(a.w, F))
           c == Guarded(SaveGoal(b.w, F))
           esc == IF ~IsNone(a.esc) THEN a.esc ELSE IF ~IsNone(b.esc) THEN b.esc ELSE c.esc
           last == IF ~IsNone(a.esc) THEN a.w ELSE IF ~IsNone(b.esc) THEN b.w ELSE c.w
       IN IF IsNone(esc)
            THEN /\ Commit(Released(cleanup_libreoffice(c.w, F)))
                 /\ obs' = Observation(<<"LibreOffice environment closed successfully.">>, TRUE)
          ELSE /\ Commit(Thrown(last, "close", Val(esc)))
               /\ obs' = Caught("Error during close: ", Val(esc))
  /\ raised' = None
  /\ lastOp' = "close"
  /\ action' = NoAction
  /\ handler' = "none"
  /\ life' = [life EXCEPT !.closed = TRUE,
                          !.closes = IF @ < 2 THEN @ + 1 ELSE @]
  /\ UNCHANGED <<uno_installed, uuids, stepCalls>>

\* ---------------------------------------------------------------- spec
\* The episode life cycle: every reset and close outcome, every command; the
\* steps that change the document are kept to a few.
LifeParams(command) ==
  CASE command = "set_cell" -> {EmptyParams, [cell |-> "A1", value |-> PyNum(5)]}
    [] command = "get_cell" -> {[cell |-> "A1"]}
    [] command = "open_file" -> {[file_path |-> MissingPath], [file_path |-> BasePath]}
    [] OTHER -> {EmptyParams}
LifeFaults(command) ==
  CASE command = "create_sheet" -> {{}, {"stale_raise"}}
    [] command = "open_file" -> {{}, {"close"}, {"load_returns_none"}}
    [] command = "get_cell" -> {{}, {"getString"}}
    [] OTHER -> {{}}

Reset == ResetWith(ResetInputs)
Close == CloseWith(CloseFaultSets)
Step(command) == StepWith(command, LifeParams(command), LifeFaults(command))

Next ==
  \/ Reset
  \/ Close
  \/ \E command \in Commands : Step(command)

Spec == Init /\ [][Next]_vars

\* One episode on a healthy engine: a reset that meets no failure, then steps
\* with every command, every parameter shape and every failing capability.
CleanReset == {[F |-> {}, fails |-> 0]}
FirstReset == lastOp = "init" /\ ResetWith(CleanReset)
HandlerStep(command) == StepWith(command, ParamsOf(command), FaultSets(FaultsOf(command)))

NextHandlers ==
  \/ FirstReset
  \/ \E command \in Commands : HandlerStep(command)

SpecHandlers == Init /\ [][NextHandlers]_vars

\* ------------------------------------------------------------- claims
Mentions(message, word) ==
  /\ ~IsNone(message)
  /\ \E i \in 1..Len(Val(message)) : Val(message)[i] = word
IsNotInitialized(o) ==
  /\ ~o.success
  /\ o.result = NotInitialized.result
  /\ o.error_message = NotInitialized.error_message
IsStep == lastOp' = "step"
CountedOnce == self'.state.step_count = self.state.step_count + 1

\* C1: after a reset (or construction) and N step calls of any kind, in any
\* life-cycle state, state.step_count is N.
C1_StepCountIsCallCount == self.state.step_count = stepCalls
C1_Witness ==
  /\ lastOp = "step" /\ stepCalls = 2 /\ ~obs.success
  /\ ~self.initialized /\ life.closed /\ self.state.episode_id # ConstructedId

\* C2 as stated: a step with an unsupported command, in every life-cycle
\* state, fails with an error_message that mentions the command and counts once.
C2_UnknownNamedEverywhere ==
  [][(IsStep /\ action'.command \notin Supported) =>
       /\ ~obs'.success
       /\ Mentions(obs'.error_message, action'.command)
       /\ CountedOnce]_vars
\* C2 amended: it fails and counts once in every state; the error_message
\* mentions the command while the environment is initialized and is the
\* not-initialized failure otherwise.
C2_UnknownNamedWhenInitialized ==
  [][(IsStep /\ action'.command \notin Supported) =>
       /\ ~obs'.success
       /\ CountedOnce
       /\ IF self.initialized
          THEN Mentions(obs'.error_message, action'.command)
          ELSE IsNotInitialized(obs')]_vars
C2_Witness ==
  /\ lastOp = "step" /\ action.command = "unknown_command" /\ self.initialized
  /\ Mentions(obs.error_message, "unknown_command") /\ self.state.step_count = 2

\* the exceptions of the last call that were not absorbed by _get_sheet
Surfacing == {i \in 1..Len(thrown) : thrown[i].within # "_get_sheet"}
\* C3 as stated: whatever is raised inside a handler, address resolution
\* included, step returns a failure that carries the exception's message.
C3_EveryExceptionReported ==
  (lastOp = "step" /\ thrown # <<>>) =>
    /\ raised = None
    /\ ~obs.success
    /\ \E i \in 1..Len(thrown) : obs.error_message = Some(thrown[i].exc)
\* C3 amended: step never raises, and whatever is raised inside a handler,
\* other than a failed lookup of the sheet parameter's name (which address
\* resolution absorbs), yields a failure that carries the exception's message.
C3_SurfacingExceptionReported ==
  lastOp = "step" =>
    /\ raised = None
    /\ Surfacing # {} =>
         /\ ~obs.success
         /\ \E i \in Surfacing : obs.error_message = Some(thrown[i].exc)
C3_Witness ==
  /\ lastOp = "step" /\ action.command = "add_sheet" /\ handler = "add_sheet"
  /\ Len(thrown) = 1 /\ thrown[1].within = "_execute_command"
  /\ obs.error_message = Some(EngineError("getCount"))

\* the required parameters of the command table
Required(command) ==
  CASE command \in {"set_cell", "get_cell", "get_formula", "format_cell"} -> {"cell"}
    [] command = "set_range" -> {"range", "values"}
    [] command = "get_range" -> {"range"}
    [] command = "set_formula" -> {"cell", "formula"}
    [] command = "delete_sheet" -> {"name"}
    [] command = "rename_sheet" -> {"old_name", "new_name"}
    [] command \in {"open_file", "save_file", "export_pdf", "export_csv"} -> {"file_path"}
    [] OTHER -> {}
LacksRequired(a) == \E k \in Required(a.command) : ~Truthy(a.parameters, k)
\* C4: a step that omits a required parameter, or passes it empty, fails with
\* a non-empty error_message, does not raise and changes nothing of the document.
C4_MissingParameterFails ==
  [][(IsStep /\ LacksRequired(action')) =>
       /\ ~obs'.success
       /\ ~IsNone(obs'.error_message) /\ Val(obs'.error_message) # <<>>
       /\ raised' = None
       /\ docs' = docs /\ files' = files
       /\ self'.document = self.document
       /\ self'.current_sheet = self.current_sheet]_vars
C4_Witness ==
  /\ lastOp = "step" /\ self.initialized /\ handler = "set_formula"
  /\ Has(action.parameters, "cell") /\ ~Has(action.parameters, "formula")
  /\ obs.error_message = Some(<<"cell and formula parameters are required">>)
  /\ trace = <<>>

\* C5: a step issued before any reset has succeeded returns the
\* not-initialized failure, reaches no handler, calls no capability, raises nothing.
C5_RejectedBeforeFirstReady ==
  (lastOp = "step" /\ ~life.readied) =>
    /\ IsNotInitialized(obs)
    /\ handler = "none"
    /\ trace = <<>>
    /\ raised = None
C5_Witness ==
  /\ lastOp = "step" /\ ~life.readied /\ life.failed /\ self.document # 0
  /\ action.command = "set_cell" /\ IsNotInitialized(obs)

\* C6: after a reset whose initialization failed, also one issued while
\* READY, every step returns the not-initialized failure.
C6_RejectedAfterFailedReset ==
  (lastOp = "step" /\ life.failed) => IsNotInitialized(obs)

\* C7: reset never propagates an exception.
C7_ResetNeverRaises == lastOp = "reset" => raised = None

\* C8: every reset installs an episode identifier that differs from the
\* previous one and from the constructed one, with step_count 0.
C8_ResetFreshEpisode ==
  [][lastOp' = "reset" =>
       /\ self'.state.episode_id # self.state.episode_id
       /\ self'.state.episode_id # ConstructedId
       /\ self'.state.step_count = 0]_vars
C8_Witness ==
  /\ lastOp = "reset" /\ ~obs.success /\ raised = None /\ life.readied
  /\ self.reset_count = 2 /\ self.state.step_count = 0

\* C9: close returns without raising and reports success, the first time and
\* when called again, even when every teardown step fails.
C9_CloseAlwaysSucceeds ==
  lastOp = "close" =>
    /\ raised = None
    /\ obs.success
    /\ IsNone(obs.error_message)
C9_Witness ==
  /\ lastOp = "close" /\ life.closes = 2 /\ obs.success
  /\ Len(thrown) = 4 /\ self.document # 0

\* C10: after close, until a reset succeeds, every step returns the
\* not-initialized failure, still counts, and reaches no handler or capability.
C10_RejectedAfterClose ==
  (lastOp = "step" /\ life.closed) =>
    /\ IsNotInitialized(obs)
    /\ handler = "none"
    /\ trace = <<>>
    /\ self.state.step_count = stepCalls /\ stepCalls > 0
C10_Witness ==
  /\ lastOp = "step" /\ life.closed /\ life.readied /\ life.failed
  /\ self.document # 0 /\ action.command \in Supported

\* the teardown calls of the last operation up to its first storeAsURL
BeforeSave(t) ==
  {j \in 1..Len(t) : \A i \in 1..j : t[i] # "storeAsURL"}
\* C11: with a goal path configured, close of an environment that holds an
\* open document issues the save while that document is still open: before
\* any call that closes the document or terminates the engine.
C11_GoalSavedBeforeRelease ==
  [][(/\ lastOp' = "close"
      /\ ~IsNone(self.goal_excel)
      /\ DocOpen(World, self.document)) =>
       /\ \E i \in 1..Len(trace') : trace'[i] = "storeAsURL"
       /\ \A j \in BeforeSave(trace') : trace'[j] \notin {"close", "terminate"}]_vars

\* C12: a step's observation has reward 1.0 on success and -0.1 on failure
\* (in tenths) and done = false; a reset's observation has reward 0.0 and
\* done = false.
C12_RewardAndDone ==
  /\ lastOp = "step" =>
       /\ obs.reward = Some(IF obs.success THEN 10 ELSE -1)
       /\ obs.done = FALSE
  /\ (lastOp = "reset" /\ raised = None) =>
       /\ obs.reward = Some(0)
       /\ obs.done = FALSE
C12_Witness ==
  /\ lastOp = "step" /\ ~obs.success /\ self.initialized
  /\ obs.reward = Some(-1) /\ obs.done = FALSE

\* C13: a step's observation carries metadata {step, command, episode_id}:
\* the counter after the increment, the action's command string (also for an
\* unknown command and a not-initialized failure), the current episode.
C13_StepMetadata ==
  lastOp = "step" =>
    /\ ~IsNone(obs.metadata)
    /\ DOMAIN Val(obs.metadata) = {"step", "command", "episode_id"}
    /\ Val(obs.metadata).step = self.state.step_count
    /\ Val(obs.metadata).step = stepCalls
    /\ Val(obs.metadata).command = action.command
    /\ Val(obs.metadata).episode_id = self.state.episode_id
C13_Witness ==
  /\ lastOp = "step" /\ IsNotInitialized(obs) /\ action.command = "unknown_command"
  /\ Val(obs.metadata) = [step |-> 2, command |-> "unknown_command",
                          episode_id |-> self.state.episode_id]
  /\ self.state.episode_id # ConstructedId

\* C14: in every observation step, reset or close returns, error_message is
\* present exactly when success is false.
C14_ErrorMessageIffFailure ==
  (lastOp \in {"step", "reset", "close"} /\ raised = None) =>
    (~IsNone(obs.error_message) <=> ~obs.success)

\* C15 as stated: close discards the episode, so the state query no longer
\* returns the identifier the episode had.
C15_CloseDiscardsEpisode ==
  [][lastOp' = "close" => self'.state.episode_id # self.state.episode_id]_vars
\* C15 amended: only reset replaces the episode; close leaves the identifier
\* and the step counter as they were, and the state query keeps returning them.
C15_CloseKeepsEpisode ==
  [][lastOp' = "close" => self'.state = self.state]_vars
C15_Witness ==
  /\ lastOp = "close" /\ life.readied /\ ~self.initialized
  /\ self.state.step_count = 2 /\ self.state.episode_id # ConstructedId

\* a document open in the engine that the environment no longer refers to
Leaked == {d \in DocIds : docs[d].open /\ d # self.document}
\* the teardown of the last operation met a document that refused to close
CloseRefused ==
  \E i \in 1..Len(thrown) :
    thrown[i] = [within |-> "_cleanup_libreoffice", exc |-> EngineError("close")]
C17_ReadyHandleValid ==
  self.initialized => (self.document # 0 /\ DocOpen(World, self.document))

\* the sheets of the environment's document
Sheets == IF self.document = 0 THEN <<>> ELSE docs[self.document].sheets
Clashed(t) == \E i \in 1..Len(t), n \in 1..4 : t[i].exc = NameClash(SheetName(n))
\* C18: add_sheet without a name generates a name no existing sheet has, after
\* any add_sheet, delete_sheet and rename_sheet steps: the engine never
\* refuses the name, and a call that meets no failure adds exactly one sheet.
C18_AutoNameUnique ==
  [][(IsStep /\ action'.command = "add_sheet" /\ ~Has(action'.parameters, "name")) =>
       /\ ~Clashed(thrown')
       /\ thrown' = <<>> =>
            (self.initialized => (obs'.success /\ Len(Sheets') = Len(Sheets) + 1))]_vars

\* the sheet a delete_sheet action names is the active one
DeletesActive(a) ==
  /\ SheetLive(World, self.current_sheet)
  /\ NameOf(World, self.current_sheet) = a.parameters.name
\* C19: a successful delete_sheet of the active sheet makes the sheet at index
\* 0 of the remaining sheets the current sheet and reports its name as
\* current_sheet; a successful delete_sheet of another sheet leaves the
\* current sheet as it was.
C19_DeleteActiveSelectsFirst ==
  [][(IsStep /\ action'.command = "delete_sheet" /\ obs'.success) =>
       IF DeletesActive(action')
       THEN /\ self'.current_sheet = [doc |-> self'.document, sid |-> Sheets'[1].sid]
            /\ obs'.current_sheet = Some(Sheets'[1].name)
       ELSE self'.current_sheet = self.current_sheet]_vars

\* C20: when a successful step observation carries current_sheet, it is the
\* name of the environment's active sheet after the step, the sheet a
\* following command without a sheet parameter operates on.
C20_CurrentSheetIsActive ==
  (/\ lastOp = "step" /\ obs.success /\ ~IsNone(obs.current_sheet)
   /\ SheetLive(World, self.current_sheet)) =>
    obs.current_sheet = Some(NameOf(World, self.current_sheet))

\* C21: whenever an observation carries sheet_names, the value is the ordered
\* sequence of all sheet names of the active document at that moment.
C21_SheetNamesComplete ==
  (/\ lastOp \in {"step", "reset"} /\ raised = None /\ obs.success
   /\ ~IsNone(obs.sheet_names)
   /\ DocOpen(World, self.document)) =>
    Val(obs.sheet_names) = SheetNames(World, self.document)

\* two actions address the same cell or range of the same sheet
SameTarget(a, b, key) ==
  /\ Has(a.parameters, key) /\ Has(b.parameters, key)
  /\ a.parameters[key] = b.parameters[key]
  /\ Get(a.parameters, "sheet") = Get(b.parameters, "sheet")
\* a successful write step directly followed by a successful read step of
\* the same target
Follows(set, get, key) ==
  /\ lastOp = "step" /\ action.command = set /\ obs.success
  /\ IsStep /\ action'.command = get /\ obs'.success
  /\ SameTarget(action, action', key)

\* C22: set_cell(cell, v) followed by get_cell(cell) returns v, for a string
\* v (also an empty or blank one) and for a number v.
C22_CellRoundTrip ==
  [][(/\ Follows("set_cell", "get_cell", "cell")
      /\ Has(action.parameters, "value")
      /\ action.parameters.value.t \in {"str", "num"}) =>
       obs'.data = Some(action.parameters.value)]_vars

\* C23: set_range(R, V) followed by get_range(R), V having the dimensions of
\* R, returns a 2-D sequence equal to V, numbers as numbers and strings as
\* strings.
C23_RangeRoundTrip ==
  [][(/\ Follows("set_range", "get_range", "range")
      /\ Len(action.parameters.values) = 1
      /\ Len(action.parameters.values[1]) = RangeCols(action.parameters.range)) =>
       obs'.data = Some(action.parameters.values)]_vars
C23_Witness ==
  /\ lastOp = "step" /\ action.command = "get_range" /\ obs.success
  /\ obs.data = Some(<<Row5x>>)
  /\ CellsOf(World, self.current_sheet)["A1"] = NumCell(5)
  /\ CellsOf(World, self.current_sheet)["B1"] = TextCell("x")

\* the displayed result of the formula =A1+5 on the active sheet
ShownSum == PyToStr(PyNum(CellValue(CellsOf(World, self.current_sheet), "A1") + 5))
\* C24: set_formula(cell, f) followed by get_formula(cell) returns the literal
\* string f and not the evaluated result; get_cell on the same cell returns
\* the evaluated result.
C24_FormulaRoundTrip ==
  [][/\ Follows("set_formula", "get_formula", "cell") =>
          obs'.data = Some(PyStr(action.parameters.formula))
     /\ (Follows("set_formula", "get_cell", "cell")
           /\ action.parameters.formula \in Formulas) =>
          /\ obs'.data = Some(PyStr(ShownSum'))
          /\ obs'.data # Some(PyStr(action.parameters.formula))]_vars
C24_Witness ==
  /\ lastOp = "step" /\ action.command = "get_formula" /\ obs.success
  /\ action.parameters.cell = "B1"
  /\ obs.data = Some(PyStr("=A1+5"))
  /\ ShownSum = "10"

C26_ParametersNeverAbsent ==
  lastOp = "step" =>
    /\ IsMapping(action.parameters)
    /\ IsMapping(step_payload(action).parameters)
    /\ IsMapping(OrEmpty(action.parameters))
    /\ \A a \in {action, [action EXCEPT !.parameters = NoParameters]} :
         /\ IsMapping(step_payload(a).parameters)
         /\ IsMapping(OrEmpty(a.parameters))
         /\ IsMapping(post_init(a.parameters))
C26_Witness ==
  /\ lastOp = "step" /\ action.command = "set_cell" /\ self.initialized
  /\ action.parameters = EmptyParams
  /\ obs.error_message = Some(<<"cell parameter is required">>)

\* the teardown of the last operation could not remove the directory itself
RmtreeFailed(t) == \E i \in 1..Len(t) : t[i].exc = <<"rmtree failed">>
\* C27: during close and during the teardown of reset, a failing cleanup
\* action does not keep the later ones from running: the temporary directory
\* is still removed, and close still clears the initialized flag, also when
\* closing the document raises.
C27_CleanupRunsToEnd ==
  [][(/\ lastOp' \in {"close", "reset"}
      /\ self.temp_dir # 0 /\ self.temp_dir \in dirs
      /\ ~RmtreeFailed(thrown')) =>
       /\ \E i \in 1..Len(trace') : trace'[i] = "rmtree"
       /\ lastOp' = "close" => (self.temp_dir \notin dirs' /\ ~self'.initialized)]_vars

CellCommands ==
  {"set_cell", "get_cell", "set_range", "get_range", "set_formula", "get_formula",
   "format_cell"}
\* the lookup of the sheet parameter's name raised and was absorbed
Absorbed(t) == \E i \in 1..Len(t) : t[i].within = "_get_sheet"
\* the sheet an action addresses: the named one if the document has it and
\* its lookup did not raise, the current one otherwise
Addressed(a, t) ==
  IF /\ Has(a.parameters, "sheet")
     /\ SheetIdx(World, self.document, a.parameters.sheet) # 0
     /\ ~Absorbed(t)
  THEN SheetAt(World, self.document, SheetIdx(World, self.document, a.parameters.sheet))
  ELSE self.current_sheet
\* C28: a cell or range command whose sheet parameter names an existing sheet
\* operates on that sheet; with an unknown name or no sheet parameter it
\* operates on the current sheet and does not fail because of the name;
\* resolution never changes which sheet is current.
C28_SheetFallback ==
  [][(IsStep /\ action'.command \in CellCommands) =>
       /\ self'.current_sheet = self.current_sheet
       /\ \A i \in 1..Len(thrown') :
            thrown'[i].exc = EngineError("getByName") => thrown'[i].within = "_get_sheet"
       /\ (/\ self.initialized /\ ~LacksRequired(action')
           /\ \A i \in 1..Len(thrown') : thrown'[i].within = "_get_sheet") =>
            /\ obs'.success
            /\ obs'.current_sheet = Some(NameOf(World, Addressed(action', thrown')))
            /\ action'.command = "set_cell" =>
                 /\ docs'[self.document].cells[Addressed(action', thrown').sid]
                          [action'.parameters.cell] = Written(action'.parameters.value)
                 /\ \A sid \in SheetIds \ {Addressed(action', thrown').sid} :
                      docs'[self.document].cells[sid] = docs[self.document].cells[sid]]_vars
C28_Witness ==
  /\ lastOp = "step" /\ action.command = "set_cell" /\ obs.success
  /\ Has(action.parameters, "sheet") /\ thrown = <<>>
  /\ SheetIdx(World, self.document, "Sheet2") = 2
  /\ self.current_sheet.sid = Sheets[1].sid
  /\ docs[self.document].cells[Sheets[2].sid]["A1"] = TextCell("x")
  /\ docs[self.document].cells[Sheets[1].sid]["A1"] = EmptyCell

\* str.strip() over the strings a cell can hold
Strip(s) == IF s = " " THEN "" ELSE s
\* C29: get_cell returns the cell's text whenever that text is non-empty after
\* trimming and the cell's number otherwise; a cell holding only blank text
\* returns the number.
C29_TextElseNumber ==
  [][(IsStep /\ action'.command = "get_cell" /\ obs'.success) =>
       LET cs == CellsOf(World, Addressed(action', thrown'))
           text == CellString(cs, action'.parameters.cell)
       IN obs'.data = Some(IF Strip(text) # "" THEN PyStr(text)
                           ELSE PyNum(CellValue(cs, action'.parameters.cell)))]_vars
C29_Witness ==
  /\ lastOp = "step" /\ action.command = "get_cell" /\ obs.success
  /\ CellsOf(World, self.current_sheet)[action.parameters.cell] = TextCell(" ")
  /\ obs.data = Some(PyNum(0))

\* C30: set_cell writes a value that is a number through the numeric setter
\* and every other value (a string, a boolean, an absent value) as its string
\* form through the text setter.
C30_NumbersOnlyThroughSetValue ==
  [][(IsStep /\ action'.command = "set_cell" /\ obs'.success) =>
       LET v == IF Has(action'.parameters, "value") THEN action'.parameters.value ELSE PyNone
           cell == docs'[self.document].cells[Addressed(action', thrown').sid]
                       [action'.parameters.cell]
           called(m) == \E i \in 1..Len(trace') : trace'[i] = m
       IN IF v.t = "num"
            THEN cell = NumCell(v.n) /\ called("setValue") /\ ~called("setString")
            ELSE cell = TextCell(PyToStr(v)) /\ called("setString") /\ ~called("setValue")]_vars

\* the last call was a reset whose connection was established and whose
\* _open_file of the base document returned a failure
BaseOpenFailed ==
  /\ lastOp = "reset" /\ self.initialized
  /\ ~IsNone(self.base_excel)
  /\ obs.success \/ ~IsNone(raised)
  /\ \/ \E i \in 1..Len(thrown) : thrown[i].within = "handler"
     \/ self.document = 0
\* C31: when the connection succeeds and opening the configured base document
\* fails, reset still returns success and leaves an open document with a live
\* current sheet, so that a following cell command with its required
\* parameters succeeds.
C31_BaseFailureLeavesReady ==
  [][/\ BaseOpenFailed =>
          /\ raised = None /\ obs.success
          /\ DocOpen(World, self.document)
          /\ SheetLive(World, self.current_sheet)
     /\ (/\ BaseOpenFailed /\ IsStep
         /\ action'.command \in CellCommands /\ ~LacksRequired(action')) =>
          obs'.success]_vars

\* the positions of a call in the calls of the last operation
CallsOf(name) == {i \in 1..Len(trace) : trace[i] = name}
\* C32: connection establishment during reset makes at most 10 attempts with
\* one fixed wait after each refused attempt, makes no attempt after the first
\* accepted one, and when every attempt is refused reset gives up after the
\* last one and returns a failure observation.
C32_BoundedConnect ==
  lastOp = "reset" =>
    /\ Cardinality(CallsOf("resolve")) <= ConnectAttempts
    /\ \A i \in CallsOf("sleep") : i - 1 \in CallsOf("resolve")
    /\ \A i \in CallsOf("resolve") :
         (i + 1 \notin CallsOf("sleep")) => \A j \in CallsOf("resolve") : j <= i
    /\ Cardinality(CallsOf("sleep")) = ConnectAttempts =>
         /\ trace[Len(trace)] = "sleep"
         /\ raised = None /\ ~obs.success /\ ~IsNone(obs.error_message)
C32_Witness ==
  /\ lastOp = "reset" /\ raised = None /\ ~obs.success
  /\ Cardinality(CallsOf("resolve")) = ConnectAttempts
  /\ Cardinality(CallsOf("sleep")) = ConnectAttempts
  /\ \E i \in 1..Len(thrown) : thrown[i].exc = ConnectError

\* C33: a step that returns a failure leaves the document as it was before
\* the step: the cell contents and sheet lists of the engine's documents, the
\* current sheet and the active document handle are unchanged, also for a
\* set_range that fails part-way and an open_file whose load fails.
C33_FailedStepChangesNothing ==
  [][(IsStep /\ ~obs'.success) =>
       /\ docs' = docs
       /\ self'.document = self.document
       /\ self'.current_sheet = self.current_sheet]_vars

\* the current sheet is a sheet of the active document, which is open
CurrentSheetExists ==
  /\ self.document # 0
  /\ self.current_sheet.doc = self.document
  /\ SheetLive(World, self.current_sheet)
\* C34: while the environment is initialized, the current sheet refers to a
\* sheet that exists in the active document: an add_sheet, delete_sheet,
\* rename_sheet or open_file step, successful or failing, keeps it so.
C34_CurrentSheetKeptValid ==
  [][(/\ IsStep /\ self.initialized /\ CurrentSheetExists
      /\ action'.command \in {"add_sheet", "delete_sheet", "rename_sheet", "open_file"}) =>
       CurrentSheetExists']_vars

ReadOnly == {"get_cell", "get_range", "get_formula", "create_sheet"}
\* C35: a get_cell, get_range, get_formula or create_sheet step, successful or
\* failing, leaves cell contents, formulas, the sheet list, the current sheet
\* and the episode identifier unchanged; of the environment's state it changes
\* step_count only.
C35_ReadOnlyFrame ==
  [][(IsStep /\ action'.command \in ReadOnly) =>
       /\ docs' = docs
       /\ self' = [self EXCEPT !.state.step_count = @ + 1]
       /\ files' = files /\ dirs' = dirs /\ running' = running]_vars
C35_Witness ==
  /\ lastOp = "step" /\ action.command = "get_cell" /\ obs.success
  /\ Has(action.parameters, "sheet")
  /\ Len(Sheets) = 2 /\ NameOf(World, self.current_sheet) = "Sheet1"
  /\ obs.current_sheet = Some("Sheet2")
  /\ self.state.step_count = 2

\* the 0-based column and row of a cell
ColOf(a) == IF a \in {"A1", "A2"} THEN 0 ELSE 1
RowOf(a) == IF a \in {"A1", "B1"} THEN 0 ELSE 1
\* C36: a successful set_range writes values[i][j] to the cell at column
\* offset j and row offset i from the top-left corner of the named range, for
\* every entry of values, and changes no other cell: values larger than the
\* range are written outside it, range cells without a value are untouched.
C36_RangeWritesByOffset ==
  [][(IsStep /\ action'.command = "set_range" /\ obs'.success) =>
       LET V == action'.parameters.values
           R == action'.parameters.range
           sh == Addressed(action', thrown')
           I(a) == RowOf(a) - StartRow(R) + 1
           J(a) == ColOf(a) - StartCol(R) + 1
           given(a) == I(a) \in 1..Len(V) /\ J(a) \in 1..Len(V[I(a)])
       IN /\ \A a \in Addrs :
               docs'[sh.doc].cells[sh.sid][a] =
                 IF given(a) THEN Written(V[I(a)][J(a)]) ELSE docs[sh.doc].cells[sh.sid][a]
          /\ \A sid \in SheetIds \ {sh.sid} :
               docs'[sh.doc].cells[sid] = docs[sh.doc].cells[sid]]_vars
C36_Witness ==
  /\ lastOp = "step" /\ action.command = "set_range" /\ obs.success
  /\ action.parameters.range = "A1:B1" /\ action.parameters.values = Col5x
  /\ CellsOf(World, self.current_sheet)["A1"] = NumCell(5)
  /\ CellsOf(World, self.current_sheet)["A2"] = TextCell("x")
  /\ CellsOf(World, self.current_sheet)["B1"] = NumCell(1)

\* the last call was a successful reset of an environment without a base
\* document
FreshEpisode == lastOp = "reset" /\ obs.success /\ IsNone(self.base_excel)
\* C37: after a successful reset with no base document configured, the active
\* document is a blank document with its first sheet as current sheet, and a
\* get command that follows returns nothing written in an earlier episode.
C37_EpisodesIsolated ==
  [][/\ FreshEpisode' =>
          /\ DocOpen(World', self'.document)
          /\ docs'[self'.document].sheets = BlankContent.sheets
          /\ docs'[self'.document].cells = BlankContent.cells
          /\ self'.current_sheet = SheetAt(World', self'.document, 1)
     /\ (/\ FreshEpisode /\ IsStep /\ obs'.success
         /\ action'.command \in {"get_cell", "get_range", "get_formula"}) =>
          obs'.data \in {Some(PyNum(0)), Some(PyStr(""))}]_vars
C37_Witness ==
  /\ FreshEpisode /\ self.reset_count = 2
  /\ \E d \in Leaked : docs[d].cells[1]["A1"] = NumCell(5)
  /\ docs[self.document].cells = BlankContent.cells

\* C38: the environment owns at most one temporary directory at any time: a
\* reset or close whose directory removal itself does not fail leaves no
\* directory besides the one the environment holds, and after close none
\* remains, also when closing the document fails.
C38_OneTempDir ==
  [][(/\ lastOp' \in {"reset", "close"}
      /\ Cardinality(dirs) <= 1
      /\ ~RmtreeFailed(thrown')) =>
       /\ Cardinality(dirs') <= 1
       /\ dirs' \subseteq {self'.temp_dir}
       /\ lastOp' = "close" => dirs' = {}]_vars

====
